---- MODULE Spec2Model ----
(***************************************************************************)
(* Mean-function algebra of pyGPs (pyGPs/Core/mean.py).                    *)
(*                                                                         *)
(* A mean function is a tree: the leaves Zero, One, Const, Linear and the  *)
(* composites SumOfMean, ProductOfMean, ScaleOfMean, PowerOfMean.  Every   *)
(* node carries the attributes hyp, initial and scaled; an attribute is a  *)
(* record [has, v], has = FALSE when the constructor never set it (reading *)
(* it raises AttributeError in Python).                                    *)
(*                                                                         *)
(* The caller is modelled as a postfix expression builder: leaves are      *)
(* pushed on a stack of root trees, unary operators replace the top root,  *)
(* binary operators replace the two top roots (mean1 below, mean2 on top). *)
(* Every tree is built in exactly one way, each node has one owner (the    *)
(* composition is a tree, never a shared sub-expression), and attribute    *)
(* assignments and evaluations address the top root.  Attributes are       *)
(* modelled as values: assignment through the property (obj.hyp = v) is    *)
(* covered, in-place mutation of a list object (obj.hyp[i] = x) is not.    *)
(*                                                                         *)
(* Real numbers are exact rationals <<numerator, denominator>>.            *)
(***************************************************************************)
EXTENDS Integers, Sequences, FiniteSets, TLC

VARIABLES stack, last

vars == <<stack, last>>

\* ------------------------------------------------------------------ bounds

\* Total number of nodes of the trees on the stack (construction and assignment).
MaxNodes == 4
\* Number of root trees alive at once.
MaxStack == 2
\* Total number of nodes on the stack when trees are evaluated.
MaxEvalNodes == 3

\* --------------------------------------------------------------- rationals

RECURSIVE GCD(_, _)
GCD(a, b) == IF b = 0 THEN a ELSE GCD(b, a % b)

IAbs(n) == IF n < 0 THEN -n ELSE n

IMax(a, b) == IF a >= b THEN a ELSE b

\* The rational n/d (d # 0) in lowest terms with a positive denominator.
Q(n, d) ==
    LET g == GCD(IAbs(n), IAbs(d))
        s == IF d < 0 THEN -1 ELSE 1
    IN  <<(s * n) \div g, (s * d) \div g>>

R(n) == <<n, 1>>

RAdd(a, b) == Q(a[1] * b[2] + b[1] * a[2], a[2] * b[2])

RMul(a, b) == Q(a[1] * b[1], a[2] * b[2])

\* a ** k for a natural k; numpy gives 1 for k = 0, also when a = 0.
RECURSIVE RPow(_, _)
RPow(a, k) == IF k = 0 THEN R(1) ELSE RMul(a, RPow(a, k - 1))

\* np.floor: the largest integer not above a.
Floor(a) == a[1] \div a[2]

\* ----------------------------------------------------------------- vectors

\* An n x 1 column is a sequence of n rationals.
VConst(n, c) == [i \in 1..n |-> c]

VAdd(a, b) == [i \in 1..Len(a) |-> RAdd(a[i], b[i])]

VMul(a, b) == [i \in 1..Len(a) |-> RMul(a[i], b[i])]

VScale(c, a) == [i \in 1..Len(a) |-> RMul(c, a[i])]

VPow(a, k) == [i \in 1..Len(a) |-> RPow(a[i], k)]

\* The input matrices x (rows of integers), n x D.
XSet == << <<<<R(1), R(2)>>, <<R(3), R(4)>>>>,
           <<<<R(2)>>, <<R(5)>>>> >>

Rows(x) == Len(x)

Cols(x) == Len(x[1])

RECURSIVE Dot(_, _, _)
Dot(row, c, k) == IF k = 0 THEN R(0) ELSE RAdd(Dot(row, c, k - 1), RMul(row[k], c[k]))

\* ------------------------------------------------------------------- nodes

Leaves == {"Zero", "One", "Const", "Linear"}

Binary == {"Sum", "Product"}

Unary == {"Scale", "Power"}

Attrs == {"hyp", "initial", "scaled"}

Set(v) == [has |-> TRUE, v |-> v]

Unset == [has |-> FALSE, v |-> <<>>]

Node(kind, hyp, initial, scaled, kids) ==
    [kind |-> kind, hyp |-> hyp, initial |-> initial, scaled |-> scaled, kids |-> kids]

Ok(t) == [st |-> "ok", t |-> t]

NoTree == Node("None", Unset, Unset, Unset, <<>>)

Raise(e) == [st |-> e, t |-> NoTree]

\* Zero.__init__ and One.__init__ set hyp and scaled, never initial.
Zero == Node("Zero", Set(<<>>), Unset, Set(<<>>), <<>>)

One == Node("One", Set(<<>>), Unset, Set(<<>>), <<>>)

Const(c) == Node("Const", Set(<<c>>), Set(<<-1>>), Set(<<>>), <<>>)

\* Linear(D, alpha_list); D = 0 and alpha = <<>> stand for None.
Linear(D, alpha) ==
    IF alpha = <<>>
    THEN IF D = 0
         THEN Ok(Node("Linear", Set(<<Q(1, 2)>>), Set(<<0>>), Set(<<>>), <<>>))
         ELSE Ok(Node("Linear", Set([i \in 1..D |-> Q(1, 2)]),
                      Set([i \in 1..D |-> i - 1]), Set(<<>>), <<>>))
    ELSE IF D = 0
         THEN Raise("TypeError")
         ELSE Ok(Node("Linear", Set(alpha), Set([i \in 1..D |-> i - 1]), Set(<<>>), <<>>))

RECURSIVE NodeCount(_)
NodeCount(t) ==
    IF t.kids = <<>> THEN 1
    ELSE IF Len(t.kids) = 1 THEN 1 + NodeCount(t.kids[1])
    ELSE 1 + NodeCount(t.kids[1]) + NodeCount(t.kids[2])

RECURSIVE StackNodes(_)
StackNodes(s) == IF s = <<>> THEN 0 ELSE NodeCount(Head(s)) + StackNodes(Tail(s))

\* The nodes of a tree, the tree itself included.
RECURSIVE Subtrees(_)
Subtrees(t) ==
    {t} \cup (IF t.kids = <<>> THEN {}
              ELSE IF Len(t.kids) = 1 THEN Subtrees(t.kids[1])
              ELSE Subtrees(t.kids[1]) \cup Subtrees(t.kids[2]))

AllNodes == UNION {Subtrees(stack[i]) : i \in 1..Len(stack)}

\* ------------------------------------------------------------ constructors

\* ProductOfMean.__init__: only _hyp is set; _initial and _scaled never are.
ProductOfMean(mean1, mean2) ==
    LET h == IF mean1.hyp.v # <<>> /\ mean2.hyp.v # <<>>
             THEN mean1.hyp.v \o mean2.hyp.v
             ELSE IF mean1.hyp.v = <<>> THEN mean2.hyp.v ELSE mean1.hyp.v
    IN  Ok(Node("Product", Set(h), Unset, Unset, <<mean1, mean2>>))

\* SumOfMean.__init__: the three branches on the emptiness of the operands' hyp;
\* reading an attribute an operand never set raises AttributeError.
SumOfMean(mean1, mean2) ==
    IF mean1.hyp.v # <<>> /\ mean2.hyp.v # <<>>
    THEN IF ~mean1.initial.has \/ ~mean2.initial.has
            \/ ~mean1.scaled.has \/ ~mean2.scaled.has
         THEN Raise("AttributeError")
         ELSE Ok(Node("Sum", Set(mean1.hyp.v \o mean2.hyp.v),
                      Set(mean1.initial.v \o mean2.initial.v),
                      Set(mean1.scaled.v \o mean2.scaled.v), <<mean1, mean2>>))
    ELSE IF mean1.hyp.v = <<>>
    THEN IF ~mean2.initial.has \/ ~mean2.scaled.has
         THEN Raise("AttributeError")
         ELSE Ok(Node("Sum", mean2.hyp, mean2.initial, mean2.scaled, <<mean1, mean2>>))
    ELSE IF ~mean1.initial.has \/ ~mean1.scaled.has
         THEN Raise("AttributeError")
         ELSE Ok(Node("Sum", mean1.hyp, mean1.initial, mean1.scaled, <<mean1, mean2>>))

\* ScaleOfMean.__init__: the child is stored as self.mean (no mean1, no mean2).
ScaleOfMean(mean, scalar) ==
    IF mean.hyp.v # <<>>
    THEN IF ~mean.initial.has \/ ~mean.scaled.has
         THEN Raise("AttributeError")
         ELSE Ok(Node("Scale", Set(<<scalar>> \o mean.hyp.v), mean.initial,
                      mean.scaled, <<mean>>))
    ELSE Ok(Node("Scale", Set(<<scalar>>), Set(<<>>), Set(<<>>), <<mean>>))

\* PowerOfMean.__init__.
PowerOfMean(mean, d) ==
    IF mean.hyp.v # <<>>
    THEN IF ~mean.initial.has \/ ~mean.scaled.has
         THEN Raise("AttributeError")
         ELSE Ok(Node("Power", Set(<<d>> \o mean.hyp.v), Set(<<-1>> \o mean.initial.v),
                      Set(mean.scaled.v), <<mean>>))
    ELSE Ok(Node("Power", Set(<<d>>), Set(<<>>), Set(<<>>), <<mean>>))

\* Operands of the overloaded operators that are not mean functions.
IntArg(n) == [t |-> "int", q |-> R(n)]

FloatArg(q) == [t |-> "float", q |-> q]

StrArg == [t |-> "str", q |-> R(0)]

MeanArg == [t |-> "mean", q |-> R(0)]

NoArg == [t |-> "none", q |-> R(0)]

\* Mean.__add__(self, other) for an operand that is no mean function: SumOfMean
\* reads other.hyp.
AddOther(self, other) == Raise("AttributeError")

\* Mean.__mul__(self, other) for an operand that is no mean function; the else
\* branch prints and falls off the end, so the call returns None.
MulOther(self, other) ==
    IF other.t \in {"int", "float"} THEN ScaleOfMean(self, other.q) ELSE Raise("None")

\* Mean.__pow__(self, number): the else branch prints and returns None.
Pow(self, number) ==
    IF number.t = "int" /\ number.q[1] > 0 THEN PowerOfMean(self, number.q)
    ELSE Raise("None")

\* ------------------------------------------------------------- assignment

\* hyp[:len1] and hyp[len1:] of CompositeMean._setHyp (and _setInitial, _setScaled).
Slice1(v, len1) == SubSeq(v, 1, IF len1 < Len(v) THEN len1 ELSE Len(v))

Slice2Off(v, len1) == SubSeq(v, len1 + 2, Len(v))

Slice2(v, len1) == SubSeq(v, len1 + 1, Len(v))

IsLeaf(t) == t.kind \in Leaves

WithAttr(t, a, v) == [t EXCEPT ![a] = Set(v)]

\* obj.a = v for a in hyp, initial, scaled.  On a leaf the attribute is plain; on a
\* composite it is the property of CompositeMean.  The result is the object after
\* the statement and how the statement ended: an exception raised by a child's
\* setter leaves what was assigned before it in place.
RECURSIVE SetAttr(_, _, _)
SetAttr(t, a, v) ==
    IF IsLeaf(t) THEN Ok(WithAttr(t, a, v))
    ELSE IF ~t[a].has THEN [st |-> "AttributeError", t |-> t]
    ELSE IF Len(v) # Len(t[a].v) THEN [st |-> "AssertionError", t |-> t]
    ELSE IF t.kind \in Unary THEN [st |-> "AttributeError", t |-> t]
    ELSE IF ~t.kids[1][a].has THEN [st |-> "AttributeError", t |-> t]
    ELSE LET len1 == Len(t.kids[1][a].v)
             t0 == WithAttr(t, a, v)
             r1 == SetAttr(t.kids[1], a, Slice1(v, len1))
             t1 == [t0 EXCEPT !.kids[1] = r1.t]
         IN  IF r1.st # "ok" THEN [st |-> r1.st, t |-> t1]
             ELSE LET r2 == SetAttr(t.kids[2], a, Slice2(v, len1))
                  IN  [st |-> r2.st, t |-> [t1 EXCEPT !.kids[2] = r2.t]]

\* ------------------------------------------------------------- evaluation

\* What getMean or getDerMatrix yields: the column v, or v .* log(ln) elementwise
\* when ln is not empty (the derivative of a power by its exponent), or the
\* exception it raised.
EvOk(v) == [st |-> "ok", v |-> v, ln |-> <<>>]

EvLn(v, a) == [st |-> "ok", v |-> v, ln |-> a]

EvErr(e) == [st |-> e, v |-> <<>>, ln |-> <<>>]

NoRes == EvErr("none")

\* A + B and A * B of two evaluated columns, the left operand evaluated first.
Plus(a, b) ==
    IF a.st # "ok" THEN a ELSE IF b.st # "ok" THEN b ELSE EvOk(VAdd(a.v, b.v))

Times(a, b) ==
    IF a.st # "ok" THEN a ELSE IF b.st # "ok" THEN b
    ELSE [a EXCEPT !.v = VMul(a.v, b.v)]

\* c * A in ScaleOfMean.getMean and ScaleOfMean.getDerMatrix.
ScaleCombineDropped(c, a) == a

ScaleCombine(c, a) == IF a.st # "ok" THEN a ELSE [a EXCEPT !.v = VScale(c, a.v)]

\* d = np.abs(np.floor(self.hyp[0])); d = max(d, 1)
DEffFloorAbs(d) == IMax(Floor(Q(IAbs(d[1]), d[2])), 1)

DEff(d) == IMax(IAbs(Floor(d)), 1)

\* self.mean.getMean(x) ** d
PowerOf(a, d) == IF a.st # "ok" THEN a ELSE EvOk(VPow(a.v, d))

\* a**d * np.log(a)
PowerLog(a, d) == IF a.st # "ok" THEN a ELSE EvLn(VPow(a.v, d), a.v)

\* d * self.mean.getMean(x) ** (d-1) * self.mean.getDerMatrix(x, der-1)
PowerChain(d, a, b) ==
    IF a.st # "ok" THEN a ELSE IF b.st # "ok" THEN b
    ELSE [b EXCEPT !.v = VMul(VScale(R(d), VPow(a.v, d - 1)), b.v)]

\* der < len(self.mean1.hyp) in SumOfMean.getDerMatrix and ProductOfMean.getDerMatrix.
RouteToFirstInclusive(der, len1) == der <= len1

RouteToFirst(der, len1) == der < len1

RECURSIVE getMean(_, _)
getMean(t, x) ==
    LET n == Rows(x) IN
    CASE t.kind = "Zero" -> EvOk(VConst(n, R(0)))
      [] t.kind = "One" -> EvOk(VConst(n, R(1)))
      [] t.kind = "Const" -> EvOk(VScale(t.hyp.v[1], VConst(n, R(1))))
      [] t.kind = "Linear" ->
            IF Len(t.hyp.v) = Cols(x)
            THEN EvOk([i \in 1..n |-> Dot(x[i], t.hyp.v, Cols(x))])
            ELSE EvErr("ValueError")
      [] t.kind = "Sum" -> Plus(getMean(t.kids[1], x), getMean(t.kids[2], x))
      [] t.kind = "Product" -> Times(getMean(t.kids[1], x), getMean(t.kids[2], x))
      [] t.kind = "Scale" -> ScaleCombine(t.hyp.v[1], getMean(t.kids[1], x))
      [] t.kind = "Power" -> PowerOf(getMean(t.kids[1], x), DEff(t.hyp.v[1]))

RECURSIVE getDerMatrix(_, _, _)
getDerMatrix(t, x, der) ==
    LET n == Rows(x) IN
    CASE t.kind \in {"Zero", "One"} -> EvOk(VConst(n, R(0)))
      [] t.kind = "Const" ->
            IF der = 0 THEN EvOk(VConst(n, R(1))) ELSE EvOk(VConst(n, R(0)))
      [] t.kind = "Linear" ->
            IF der < Cols(x) THEN EvOk([i \in 1..n |-> x[i][der + 1]])
            ELSE EvOk(VConst(n, R(0)))
      [] t.kind = "Sum" ->
            IF RouteToFirst(der, Len(t.kids[1].hyp.v))
            THEN getDerMatrix(t.kids[1], x, der)
            ELSE IF der < Len(t.hyp.v)
            THEN getDerMatrix(t.kids[2], x, der - Len(t.kids[1].hyp.v))
            ELSE EvErr("Exception")
      [] t.kind = "Product" ->
            IF RouteToFirst(der, Len(t.kids[1].hyp.v))
            THEN Times(getDerMatrix(t.kids[1], x, der), getMean(t.kids[2], x))
            ELSE IF der < Len(t.hyp.v)
            THEN Times(getDerMatrix(t.kids[2], x, der - Len(t.kids[1].hyp.v)),
                       getMean(t.kids[1], x))
            ELSE EvErr("Exception")
      [] t.kind = "Scale" ->
            IF der = 0 THEN getMean(t.kids[1], x)
            ELSE ScaleCombine(t.hyp.v[1], getDerMatrix(t.kids[1], x, der - 1))
      [] t.kind = "Power" ->
            LET d == DEff(t.hyp.v[1]) IN
            IF der = 0 THEN PowerLog(getMean(t.kids[1], x), d)
            ELSE PowerChain(d, getMean(t.kids[1], x),
                            getDerMatrix(t.kids[1], x, der - 1))

\* ----------------------------------------------------------------- caller

\* The values the caller draws its inputs from.
ConstVals == {R(3)}

LinearDims == {0, 2}

LinearAlphas == {<<>>, <<R(1), R(1)>>}

MulOperands == {IntArg(2), StrArg}

PowOperands == {IntArg(2), IntArg(0), FloatArg(Q(5, 2)), StrArg}

\* Exponents given to PowerOfMean directly, which checks nothing.
PowerExponents == {R(0), R(-2), Q(27, 10), Q(-3, 2)}

\* The vector <<b+1, ..., b+k>>, as reals (hyp) or as integers (initial, scaled).
Ramp(a, b, k) == [i \in 1..k |-> IF a = "hyp" THEN R(b + i) ELSE b + i]

\* The lengths tried on a composite: around its parameter count and around the
\* length the attribute holds.
AssignLens(t, a) ==
    LET L == Len(t.hyp.v)
        La == Len(t[a].v)
    IN  {k \in {L - 1, L, L + 1, La, La + 1} : k >= 0}

Top == stack[Len(stack)]

Below == stack[Len(stack) - 1]

ReplaceTop(t) == [stack EXCEPT ![Len(stack)] = t]

ReplaceTwo(t) == Append(SubSeq(stack, 1, Len(stack) - 2), t)

\* What the last statement of the caller was and how it ended: st is "ok", "None"
\* (the call returned None) or the exception raised; arg is the other operand of
\* an operator, v the vector assigned, (xi, der) the arguments of an evaluation
\* and res its result.
Last(op, st, arg, v, der, xi, res) ==
    [op |-> op, st |-> st, arg |-> arg, v |-> v, der |-> der, xi |-> xi, res |-> res]

Built(op, st, arg) == Last(op, st, arg, <<>>, 0, 0, NoRes)

Init ==
    /\ stack = <<>>
    /\ last = Built("start", "ok", NoArg)

\* leaf = Zero(), One(), Const(c) or Linear(D, alpha_list)
NewLeaf(op, r, lim) ==
    /\ Len(stack) < MaxStack
    /\ StackNodes(stack) < lim
    /\ stack' = IF r.st = "ok" THEN Append(stack, r.t) ELSE stack
    /\ last' = Built(op, r.st, NoArg)

\* A unary construction on the top root: top * number, top ** number,
\* PowerOfMean(top, d).
Wrap(op, r, arg, lim) ==
    /\ Len(stack) >= 1
    /\ StackNodes(stack) < lim
    /\ stack' = IF r.st = "ok" THEN ReplaceTop(r.t) ELSE stack
    /\ last' = Built(op, r.st, arg)

\* A binary construction on the two top roots: below + top, below * top.
Join(op, r, lim) ==
    /\ StackNodes(stack) < lim
    /\ stack' = IF r.st = "ok" THEN ReplaceTwo(r.t) ELSE stack
    /\ last' = Built(op, r.st, MeanArg)

NewZero(lim) == NewLeaf("Zero", Ok(Zero), lim)

NewOne(lim) == NewLeaf("One", Ok(One), lim)

NewConst(lim) == \E c \in ConstVals : NewLeaf("Const", Ok(Const(c)), lim)

NewLinear(lim) ==
    \E D \in LinearDims, alpha \in LinearAlphas : NewLeaf("Linear", Linear(D, alpha), lim)

Add(lim) == Len(stack) >= 2 /\ Join("add", SumOfMean(Below, Top), lim)

AddNumber(lim) ==
    Len(stack) >= 1 /\ Wrap("add", AddOther(Top, IntArg(2)), IntArg(2), lim)

Mul(lim) == Len(stack) >= 2 /\ Join("mul", ProductOfMean(Below, Top), lim)

MulNumber(lim, others) ==
    \E other \in others :
        Len(stack) >= 1 /\ Wrap("mul", MulOther(Top, other), other, lim)

PowNumber(lim, numbers) ==
    \E number \in numbers :
        Len(stack) >= 1 /\ Wrap("pow", Pow(Top, number), number, lim)

NewPowerOfMean(lim) ==
    \E d \in PowerExponents :
        Len(stack) >= 1 /\ Wrap("PowerOfMean", PowerOfMean(Top, d), FloatArg(d), lim)

\* top.a = v
Assign(a, bases) ==
    /\ Len(stack) >= 1
    /\ IsLeaf(Top) => Top[a].has
    /\ \E b \in bases :
       \E k \in IF IsLeaf(Top) THEN {Len(Top[a].v)} ELSE AssignLens(Top, a) :
          LET v == Ramp(a, b, k)
              r == SetAttr(Top, a, v)
          IN  /\ stack' = ReplaceTop(r.t)
              /\ last' = Last(a, r.st, NoArg, v, 0, 0, NoRes)

SetHyp(bases) == Assign("hyp", bases)

SetInitial(bases) == Assign("initial", bases)

SetScaled(bases) == Assign("scaled", bases)

\* top.getMean(x)
Evaluate ==
    /\ Len(stack) >= 1
    /\ \E xi \in 1..Len(XSet) :
          last' = Last("getMean", "ok", NoArg, <<>>, 0, xi, getMean(Top, XSet[xi]))
    /\ UNCHANGED stack

\* top.getDerMatrix(x, der), der from the first parameter to one past the last.
Derivative ==
    /\ Len(stack) >= 1
    /\ \E xi \in 1..Len(XSet), der \in 0..Len(Top.hyp.v) :
          last' = Last("getDerMatrix", "ok", NoArg, <<>>, der, xi,
                       getDerMatrix(Top, XSet[xi], der))
    /\ UNCHANGED stack

\* The constructions, with the numbers the caller may hand to * and **.
Build(lim, others, numbers) ==
    \/ NewZero(lim)
    \/ NewOne(lim)
    \/ NewConst(lim)
    \/ NewLinear(lim)
    \/ Add(lim)
    \/ Mul(lim)
    \/ MulNumber(lim, others)
    \/ PowNumber(lim, numbers)

\* Construction with every kind of operand, and assignment of the three attributes.
Next ==
    \/ Build(MaxNodes, MulOperands, PowOperands)
    \/ AddNumber(MaxNodes)
    \/ SetHyp({10})
    \/ SetInitial({10})
    \/ SetScaled({10})

Spec == Init /\ [][Next]_vars

\* Construction by the operators and assignment of hyp.
NextHyp ==
    \/ Build(MaxNodes, {IntArg(2)}, {IntArg(2)})
    \/ SetHyp({10, 20})

SpecHyp == Init /\ [][NextHyp]_vars

\* Construction (PowerOfMean with any exponent), assignment of hyp and evaluation.
NextEval ==
    \/ Build(MaxEvalNodes, {IntArg(2)}, {IntArg(2)})
    \/ NewPowerOfMean(MaxEvalNodes)
    \/ SetHyp({0})
    \/ Evaluate
    \/ Derivative

SpecEval == Init /\ [][NextEval]_vars

\* ----------------------------------------------------------------- claims

\* Parameters a composite owns itself.
OwnCount(t) == IF t.kind \in Unary THEN 1 ELSE 0

KidsCount(t) ==
    IF Len(t.kids) = 1 THEN Len(t.kids[1].hyp.v)
    ELSE Len(t.kids[1].hyp.v) + Len(t.kids[2].hyp.v)

LastX == XSet[last.xi]

\* C1: for every composite node of every tree, built by an operator or by a
\* constructor, length(hyp) = own parameter count + length(child1.hyp)
\* (+ length(child2.hyp) for Sum and Product), after construction and after every
\* hyp assignment, on any sequence of assignments.
C1_ParameterCount ==
    \A t \in AllNodes : ~IsLeaf(t) => Len(t.hyp.v) = OwnCount(t) + KidsCount(t)

\* A Sum or Product of two parameterised children whose hyp was just reassigned.
C1_Witness ==
    /\ last.op = "hyp" /\ last.st = "ok"
    /\ Len(stack) >= 1 /\ Top.kind \in Binary
    /\ Top.hyp.v = last.v
    /\ Top.kids[1].hyp.v # <<>> /\ Top.kids[2].hyp.v # <<>>

\* Every node of t holds its slice of v: child1 the first length(child1.hyp)
\* entries and child2 the rest, the child of a Scale or Power all but the first.
RECURSIVE Sliced(_, _)
Sliced(t, v) ==
    /\ t.hyp.v = v
    /\ IF IsLeaf(t) THEN TRUE
       ELSE IF t.kind \in Unary THEN v # <<>> /\ Sliced(t.kids[1], Tail(v))
       ELSE LET L1 == Len(t.kids[1].hyp.v) IN
            /\ L1 <= Len(v)
            /\ Sliced(t.kids[1], SubSeq(v, 1, L1))
            /\ Sliced(t.kids[2], SubSeq(v, L1 + 1, Len(v)))

\* C2: after a reassignment of hyp on a composite node, with a vector of the
\* node's parameter count, every descendant's hyp is its slice of that vector.
C2_ChildrenHoldSlices ==
    (/\ last.op = "hyp"
     /\ ~IsLeaf(Top)
     /\ Len(last.v) = Len(Top.hyp.v))
    => Sliced(Top, last.v)

\* C3: getDerMatrix with an index at or past the node's parameter count raises an
\* error, for every kind of node; it never returns a column.
C3_OutOfRangeRaises ==
    (last.op = "getDerMatrix" /\ last.der >= Len(Top.hyp.v))
    => last.res.st # "ok"

\* C4: assignment of hyp, initial or scaled on a composite is all-or-nothing: a
\* vector whose length is not the node's parameter count is refused, and a
\* refused assignment leaves the node and every descendant as they were.
C4_AllOrNothing ==
    [][(last'.op \in Attrs /\ Len(stack) >= 1 /\ ~IsLeaf(Top))
       => /\ Len(last'.v) # Len(Top.hyp.v) => last'.st # "ok"
          /\ last'.st # "ok" => stack' = stack]_vars

\* The operands the operators support: a mean function for +, a mean function or
\* a number for *, a positive integer for **.
Supported(op, arg) ==
    CASE op = "add" -> arg.t = "mean"
      [] op = "mul" -> arg.t \in {"mean", "int", "float"}
      [] op = "pow" -> arg.t = "int" /\ arg.q[1] > 0 /\ arg.q[2] = 1

\* C5: an operator applied to an unsupported operand raises an error; it never
\* returns a value (such as None).
C5_UnsupportedOperandRaises ==
    (last.op \in {"add", "mul", "pow"} /\ ~Supported(last.op, last.arg))
    => last.st \notin {"ok", "None"}

\* C9: a + b succeeds for every pair of mean functions and yields a Sum over
\* (a, b) whose hyp is a.hyp followed by b.hyp.
C9_AddAlwaysSucceeds ==
    (last.op = "add" /\ last.arg.t = "mean")
    => /\ last.st = "ok"
       /\ Top.kind = "Sum"
       /\ Top.hyp.v = Top.kids[1].hyp.v \o Top.kids[2].hyp.v

\* C10: in every state every node's initial and scaled exist, are as long as its
\* hyp, and a composite's are those of its children in the order of hyp.
C10_AuxiliaryVectorsFollowHyp ==
    \A t \in AllNodes :
        /\ t.initial.has /\ t.scaled.has
        /\ Len(t.initial.v) = Len(t.hyp.v)
        /\ Len(t.scaled.v) = Len(t.hyp.v)
        /\ t.kind \in Binary =>
              /\ t.initial.v = t.kids[1].initial.v \o t.kids[2].initial.v
              /\ t.scaled.v = t.kids[1].scaled.v \o t.kids[2].scaled.v

\* C6: getDerMatrix of a Sum or Product over children with L1 and L2 parameters
\* routes every index i in [0, L1) to child1 at i and every index in [L1, L1+L2)
\* to child2 at i - L1, never to both and never to the out-of-range error; a
\* Product multiplies the routed derivative elementwise by the other child's mean.
C6_DerivativeRouting ==
    (last.op = "getDerMatrix" /\ Top.kind \in Binary)
    => LET L1 == Len(Top.kids[1].hyp.v)
           L2 == Len(Top.kids[2].hyp.v)
           i == last.der
           to == IF i < L1 THEN 1 ELSE 2
           routed == getDerMatrix(Top.kids[to], LastX, IF i < L1 THEN i ELSE i - L1)
           other == getMean(Top.kids[3 - to], LastX)
       IN  i < L1 + L2 =>
             /\ last.res.st # "Exception"
             /\ Top.kind = "Sum" => last.res = routed
             /\ (Top.kind = "Product" /\ routed.st = "ok" /\ other.st = "ok") =>
                   /\ last.res.st = "ok"
                   /\ last.res.v = VMul(routed.v, other.v)
                   /\ last.res.ln = routed.ln

\* A Product asked for a parameter of its second child, past a parameterised first.
C6_Witness ==
    /\ last.op = "getDerMatrix" /\ last.res.st = "ok"
    /\ Len(stack) >= 1 /\ Top.kind = "Product"
    /\ Len(Top.kids[1].hyp.v) >= 1
    /\ last.der >= Len(Top.kids[1].hyp.v)
    /\ last.der < Len(Top.kids[1].hyp.v) + Len(Top.kids[2].hyp.v)
    /\ \E k \in 1..Len(last.res.v) : last.res.v[k] # R(0)

\* C7: a Scale node with scale c over mean m has hyp = [c] followed by m.hyp,
\* getMean = c * m.getMean, getDerMatrix at 0 = m.getMean, and at every i >= 1 in
\* range = c * m.getDerMatrix at i - 1, c being the first entry of the node's hyp.
C7_ScaleLinearity ==
    (Len(stack) >= 1 /\ Top.kind = "Scale")
    => LET c == Top.hyp.v[1]
           m == Top.kids[1]
       IN  /\ Top.hyp.v = <<c>> \o m.hyp.v
           /\ last.op = "getMean" =>
                 LET a == getMean(m, LastX) IN
                 a.st = "ok" => last.res = EvOk([k \in 1..Len(a.v) |-> RMul(c, a.v[k])])
           /\ (last.op = "getDerMatrix" /\ last.der = 0) => last.res = getMean(m, LastX)
           /\ (last.op = "getDerMatrix" /\ last.der >= 1 /\ last.der < Len(Top.hyp.v)) =>
                 LET b == getDerMatrix(m, LastX, last.der - 1) IN
                 b.st = "ok" =>
                    /\ last.res.st = "ok"
                    /\ last.res.v = [k \in 1..Len(b.v) |-> RMul(c, b.v[k])]
                    /\ last.res.ln = b.ln

\* A Scale asked for the derivative by a parameter of its child, not all zero.
C7_Witness ==
    /\ last.op = "getDerMatrix" /\ last.res.st = "ok"
    /\ Len(stack) >= 1 /\ Top.kind = "Scale"
    /\ last.der >= 1 /\ last.der < Len(Top.hyp.v)
    /\ \E k \in 1..Len(last.res.v) : last.res.v[k] \notin {R(0), R(1)}

\* What a Power node computes with the exponent e: getMean = a ** e,
\* getDerMatrix at 0 = a ** e .* log(a), at i >= 1 = e * a ** (e-1) .* the child's
\* derivative at i - 1, a being the child's mean; no error of its own.
PowerUses(e) ==
    LET m == Top.kids[1]
        a == getMean(m, LastX)
    IN  /\ last.op = "getMean" =>
              IF a.st = "ok" THEN last.res = EvOk(VPow(a.v, e)) ELSE last.res = a
        /\ (last.op = "getDerMatrix" /\ last.der = 0) =>
              IF a.st = "ok" THEN last.res = EvLn(VPow(a.v, e), a.v) ELSE last.res = a
        /\ (last.op = "getDerMatrix" /\ last.der >= 1) =>
              LET b == getDerMatrix(m, LastX, last.der - 1) IN
              IF a.st = "ok" /\ b.st = "ok"
              THEN /\ last.res.st = "ok"
                   /\ last.res.v = VMul(VScale(R(e), VPow(a.v, e - 1)), b.v)
                   /\ last.res.ln = b.ln
              ELSE last.res.st # "ok"

RAbs(q) == <<IAbs(q[1]), q[2]>>

\* C8 as stated: a Power node with the stored exponent d computes with
\* max(1, floor(abs(d))), whatever the real d, and raises no error.
C8_FloorOfAbs ==
    (Len(stack) >= 1 /\ Top.kind = "Power" /\ last.op \in {"getMean", "getDerMatrix"})
    => PowerUses(IMax(1, Floor(RAbs(Top.hyp.v[1]))))

\* C8 as amended: a Power node with the stored exponent d computes with
\* max(1, abs(floor(d))), whatever the real d, and raises no error of its own.
C8_AbsOfFloor ==
    (Len(stack) >= 1 /\ Top.kind = "Power" /\ last.op \in {"getMean", "getDerMatrix"})
    => LET f == Floor(Top.hyp.v[1]) IN PowerUses(IMax(1, IF f < 0 THEN -f ELSE f))

\* A Power with a negative fractional exponent over a constant 3, evaluated.
C8_Witness ==
    /\ last.op = "getMean" /\ last.res.st = "ok"
    /\ Len(stack) >= 1 /\ Top.kind = "Power"
    /\ Top.hyp.v[1] = Q(-3, 2)
    /\ Top.kids[1].kind = "Const"

====
